---- MODULE Spec2Model ----
(***************************************************************************)
(* One invocation of a prompt submitter script: gemini_api.py,             *)
(* xai_prompt_submitter.py or ollama_prompt_submitter.py.  A behaviour is  *)
(* one run of main(): the command line and the file system are fixed in    *)
(* Init, what the outside world answers (operator input, API key, daemon,  *)
(* backend reply, clock) is chosen when main() asks for it.                *)
(*                                                                         *)
(* Text is a sequence of tokens; "\n" is the newline token, so that an     *)
(* f-string is a concatenation and a line is what lies between newlines.   *)
(***************************************************************************)
EXTENDS Integers, Sequences, FiniteSets, TLC

\* ------------------------------------------------------------- bounds
MaxPrompts == 2     \* most *.txt files listed in the prompts directory
MaxSelLen == 2      \* most characters the operator types at the selection prompt

\* ------------------------------------------------------------- constants
PROMPTS_DIR == "prompts"
REPORTS_DIR == "reports"
\* Model identifiers are token sequences, so that "name:tag" has a prefix "name".
DEFAULT_MODEL == <<"gemma3", ":", "12b-it-q8_0">>
GEMINI_DEFAULT_MODEL == <<"gemini-2.5-flash-preview-04-17">>
XAI_MODEL == <<"grok-3-beta">>

Variants == {"gemini", "xai", "ollama"}
Cloud == {"gemini", "xai"}
NL == "\n"
\* the token of a markdown code fence (three backquotes)
FENCE == "<fence>"

\* File stems that may lie in the prompts directory or be named by --prompt.
Names == {"demo", "notes", "todo"}
\* Directories an --output path may name: the working directory, which exists,
\* and one that does not exist when the run starts.
CWD == "."
NEW_DIR == "newdir"
\* Values of --model besides the default.
OtherModels == {<<"custom-model">>}
\* Model names the daemon's catalog may hold.
CatalogNames == {DEFAULT_MODEL, <<"custom-model", ":", "latest">>}
\* Characters the operator may type.
SelChars == {"0", "1", "2", "3", "-", " ", "x"}
Digits == {"0", "1", "2", "3"}
\* Texts a backend may reply with, and details an exception may carry.
ReplyTexts == {<<"ok">>, <<>>, <<"---", NL, "body">>}
ErrDetails == {<<"connection refused">>, <<"status 500", NL, "retry">>}
\* Clock readings of datetime.now().
Stamps == {"20250602_132849"}
Times == {"2025-06-02 13:28:49", "2025-06-02 13:28:50"}

\* ------------------------------------------------------------- paths
NoPath == [dir |-> "", file |-> <<>>]
\* prompts_dir / f"{name}.txt", reports_dir / f"..."
Join(dir, file) == [dir |-> dir, file |-> file]
\* Path.stem: the file name without its last suffix
Stem(p) == SubSeq(p.file, 1, Len(p.file) - 1)

Range(s) == {s[i] : i \in 1..Len(s)}
SeqsUpTo(S, n) == UNION {[1..k -> S] : k \in 0..n}
Listings == {l \in SeqsUpTo(Names, MaxPrompts) : \A i, j \in 1..Len(l) : i # j => l[i] # l[j]}

VARIABLES
    variant,      \* which script runs
    args,         \* argparse namespace: prompt, output, model, list_models
    promptsDir,   \* "dir", "absent" or "file": what lies at ./prompts
    listing,      \* stems of prompts/*.txt in directory order
    reportsDir,   \* "dir", "absent" or "file": what lies at ./reports
    newDir,       \* whether ./newdir exists
    files,        \* output files written: set of [path, content]
    step,         \* position in main()
    exited,       \* whether the process has ended
    exitCode,     \* its exit status once exited
    selection,    \* what input() returned: [asked, eof, text]
    prompt_file,  \* main's prompt_file
    prompt_name,  \* main's prompt_name
    output_file,  \* main's output_file
    submitter,    \* the submitter object: [made, api_key, client, model]
    prompt,       \* main's prompt (the file's content)
    reply,        \* what the backend did with the generation request
    sent_model,   \* the model identifier the generation request named
    response,     \* main's response
    saved,        \* arguments of the save_response call: [called, response, prompt_name, time, ok]
    trace         \* blocking operations performed so far, in order: [op, ok]

vars == <<variant, args, promptsDir, listing, reportsDir, newDir, files, step, exited,
          exitCode, selection, prompt_file, prompt_name, output_file, submitter,
          prompt, reply, sent_model, response, saved, trace>>

\* ------------------------------------------------------------- main's order
\* main with the request sent before the prompt file is read
MainStepsMut(v) == <<"find", "setup", "construct", "submit", "read", "save">>
\* The statements of main() after argument parsing, in source order.
MainSteps(v) == <<"find", "setup", "construct", "read", "submit", "save">>

pc == IF exited THEN "exit" ELSE MainSteps(variant)[step]

Event(op, ok) == [op |-> op, ok |-> ok]
Count(op) == Cardinality({i \in 1..Len(trace) : trace[i].op = op})
Did(op) == \E i \in 1..Len(trace) : trace[i].op = op
Failed(op) == \E i \in 1..Len(trace) : trace[i].op = op /\ ~trace[i].ok

NoSelection == [asked |-> FALSE, eof |-> FALSE, text |-> <<>>]
NoSubmitter == [made |-> FALSE, api_key |-> FALSE, client |-> FALSE, model |-> <<>>]
NoReply == [kind |-> "none", text |-> <<>>, detail |-> <<>>]
\* What the backend does with a request: answers with text, raises an exception
\* carrying a detail, or answers with a reply that holds no text.
Replies ==
    {[kind |-> "text", text |-> t, detail |-> <<>>] : t \in ReplyTexts}
    \cup {[kind |-> "raise", text |-> <<>>, detail |-> d] : d \in ErrDetails}
    \cup {[kind |-> "malformed", text |-> <<>>, detail |-> <<>>]}
NoSave == [called |-> FALSE, response |-> <<>>, prompt_name |-> <<>>, time |-> "", ok |-> FALSE]

DefaultModel(v) ==
    IF v = "gemini" THEN GEMINI_DEFAULT_MODEL
    ELSE IF v = "ollama" THEN DEFAULT_MODEL ELSE XAI_MODEL

Init ==
    /\ variant \in Variants
    /\ \E p \in {<<>>} \cup {<<n>> : n \in Names},
          o \in {NoPath, Join(CWD, <<"out.md">>), Join(NEW_DIR, <<"out.md">>)},
          m \in {DefaultModel(variant)} \cup (IF variant = "xai" THEN {} ELSE OtherModels),
          lm \in (IF variant = "ollama" THEN BOOLEAN ELSE {FALSE}) :
            args = [prompt |-> p, output |-> o, model |-> m, list_models |-> lm]
    /\ listing \in Listings
    /\ promptsDir \in (IF listing = <<>> THEN {"dir", "absent", "file"} ELSE {"dir"})
    /\ reportsDir \in {"dir", "absent", "file"}
    /\ newDir = FALSE
    /\ files = {}
    /\ step = 1
    /\ exited = FALSE
    /\ exitCode = 0
    /\ selection = NoSelection
    /\ prompt_file = NoPath
    /\ prompt_name = <<>>
    /\ output_file = NoPath
    /\ submitter = NoSubmitter
    /\ prompt = <<>>
    /\ reply = NoReply
    /\ sent_model = <<>>
    /\ response = <<>>
    /\ saved = NoSave
    /\ trace = <<>>

\* sys.exit(code), or an exception nobody catches (status 1)
Exit(code) == exited' = TRUE /\ exitCode' = code /\ step' = step
\* on to main's next statement; falling off the end of main is exit status 0
Advance ==
    IF step < Len(MainSteps(variant))
    THEN step' = step + 1 /\ UNCHANGED <<exited, exitCode>>
    ELSE Exit(0)

\* ------------------------------------------------------------- find_prompt_file
\* str.strip() of the typed text, as int() does before it parses
RECURSIVE LStrip(_)
LStrip(s) == IF s # <<>> /\ Head(s) = " " THEN LStrip(Tail(s)) ELSE s
RECURSIVE RStrip(_)
RStrip(s) == IF s # <<>> /\ s[Len(s)] = " " THEN RStrip(SubSeq(s, 1, Len(s) - 1)) ELSE s

DigitVal(c) == CASE c = "0" -> 0 [] c = "1" -> 1 [] c = "2" -> 2 [] c = "3" -> 3 [] OTHER -> 0
RECURSIVE Decimal(_)
Decimal(d) == IF d = <<>> THEN 0 ELSE 10 * Decimal(SubSeq(d, 1, Len(d) - 1)) + DigitVal(d[Len(d)])

\* int(selection): [ok |-> FALSE] is ValueError
ParseInt(s) ==
    LET t == RStrip(LStrip(s))
        signed == t # <<>> /\ Head(t) \in {"-", "+"}
        d == IF signed THEN Tail(t) ELSE t
        ok == d # <<>> /\ \A i \in 1..Len(d) : d[i] \in Digits
    IN [ok |-> ok,
        val |-> IF ~ok THEN 0 ELSE IF signed /\ Head(t) = "-" THEN 0 - Decimal(d) ELSE Decimal(d)]

\* the index taken without the - 1
SelectedIdxMut(n) == n
\* selected_idx = int(selection) - 1
SelectedIdx(n) == n - 1
\* 0 <= selected_idx < len(prompts)
InRange(idx, n) == 0 <= idx /\ idx < n

\* prompts_dir / f"{prompt_name}.txt"
PromptPath(name) == Join(PROMPTS_DIR, name \o <<".txt">>)
\* list(prompts_dir.glob("*.txt"))
Glob(pdir, lst) == IF pdir = "dir" THEN [i \in 1..Len(lst) |-> PromptPath(<<lst[i]>>)] ELSE <<>>
\* prompt_file.exists()
FileExists(pdir, lst, p) == \E i \in 1..Len(Glob(pdir, lst)) : Glob(pdir, lst)[i] = p
\* the by-name branch without the exists() test
NameFoundMut(pdir, lst, name) == TRUE
\* the by-name branch goes on when the file is there
NameFound(pdir, lst, name) == FileExists(pdir, lst, PromptPath(name))

\* What the operator may answer at the prompt: end of input, or some typed text.
Inputs ==
    {[asked |-> TRUE, eof |-> TRUE, text |-> <<>>]}
    \cup {[asked |-> TRUE, eof |-> FALSE, text |-> t] : t \in SeqsUpTo(SelChars, MaxSelLen)}

\* os.makedirs(prompts_dir, exist_ok=True), which only the local variant calls
MakesPromptsDir == variant = "ollama"

Resolved(p) ==
    /\ prompt_file' = p
    /\ prompt_name' = Stem(p)
    /\ Advance

\* ollama only: os.makedirs(prompts_dir) raises when ./prompts is a regular file
FindPromptMkdirFails ==
    /\ pc = "find" /\ ~args.list_models
    /\ MakesPromptsDir /\ promptsDir = "file"
    /\ Exit(1)
    /\ UNCHANGED <<variant, args, promptsDir, listing, reportsDir, newDir, files, selection,
                   prompt_file, prompt_name, output_file, submitter, prompt, reply, sent_model,
                   response, saved, trace>>

\* find_prompt_file(None) or find_prompt_file(""): list, ask once, select
FindPromptInteractive ==
    /\ pc = "find" /\ ~args.list_models
    /\ args.prompt = <<>>
    /\ ~(MakesPromptsDir /\ promptsDir = "file")
    /\ promptsDir' = IF MakesPromptsDir THEN "dir" ELSE promptsDir
    /\ LET prompts == Glob(promptsDir', listing) IN
        IF prompts = <<>>
        THEN /\ Exit(1)
             /\ UNCHANGED <<selection, prompt_file, prompt_name, trace>>
        ELSE \E sel \in Inputs :
             /\ selection' = sel
             /\ trace' = Append(trace, Event("input", ~sel.eof))
             /\ IF sel.eof \/ ~ParseInt(sel.text).ok
                THEN Exit(1) /\ UNCHANGED <<prompt_file, prompt_name>>
                ELSE LET idx == SelectedIdx(ParseInt(sel.text).val) IN
                     IF InRange(idx, Len(prompts))
                     THEN Resolved(prompts[idx + 1])
                     ELSE Exit(1) /\ UNCHANGED <<prompt_file, prompt_name>>
    /\ UNCHANGED <<variant, args, listing, reportsDir, newDir, files, output_file,
                   submitter, prompt, reply, sent_model, response, saved>>

\* find_prompt_file(name): prompts/<name>.txt when it exists
FindPromptByName ==
    /\ pc = "find" /\ ~args.list_models
    /\ args.prompt # <<>>
    /\ ~(MakesPromptsDir /\ promptsDir = "file")
    /\ promptsDir' = IF MakesPromptsDir THEN "dir" ELSE promptsDir
    /\ IF NameFound(promptsDir', listing, args.prompt)
       THEN Resolved(PromptPath(args.prompt))
       ELSE Exit(1) /\ UNCHANGED <<prompt_file, prompt_name>>
    /\ UNCHANGED <<variant, args, listing, reportsDir, newDir, files, selection, output_file,
                   submitter, prompt, reply, sent_model, response, saved, trace>>

\* ------------------------------------------------------------- --list-models
\* ollama main(): list the catalog and return, whether or not the listing raised
ListModels ==
    /\ pc = "find" /\ args.list_models
    /\ \E ok \in BOOLEAN : trace' = Append(trace, Event("list", ok))
    /\ Exit(0)
    /\ UNCHANGED <<variant, args, promptsDir, listing, reportsDir, newDir, files, selection,
                   prompt_file, prompt_name, output_file, submitter, prompt, reply, sent_model,
                   response, saved>>

\* ------------------------------------------------------------- output set-up
\* reports_dir / f"<backend>_{prompt_name}_{submission_time}.md"
DefaultOutput(v, name, stamp) == Join(REPORTS_DIR, <<v, "_">> \o name \o <<"_", stamp, ".md">>)
\* args.output if args.output else the default
OutputFile(v, out, name, stamp) == IF out # NoPath THEN out ELSE DefaultOutput(v, name, stamp)

\* os.makedirs(reports_dir, exist_ok=True), then output_file; makedirs raises when
\* ./reports is a regular file, and nothing in main catches that
SetupOutput ==
    /\ pc = "setup"
    /\ trace' = Append(trace, Event("makedirs", reportsDir # "file"))
    /\ IF reportsDir = "file"
       THEN Exit(1) /\ UNCHANGED <<reportsDir, output_file>>
       ELSE /\ reportsDir' = "dir"
            /\ \E stamp \in Stamps :
                 output_file' = OutputFile(variant, args.output, prompt_name, stamp)
            /\ Advance
    /\ UNCHANGED <<variant, args, promptsDir, listing, newDir, files, selection, prompt_file,
                   prompt_name, submitter, prompt, reply, sent_model, response, saved>>

\* ------------------------------------------------------------- constructors
\* self.client after __init__: gemini drops the client when genai.Client raises,
\* xai falls back to the default client on TypeError
ClientReady(v, key, initOk) == IF v = "gemini" THEN key /\ initOk ELSE key

ConstructCloud ==
    /\ pc = "construct" /\ variant \in Cloud
    /\ \E key \in BOOLEAN, initOk \in BOOLEAN :
         submitter' = [made |-> TRUE, api_key |-> key,
                       client |-> ClientReady(variant, key, initOk), model |-> <<>>]
    /\ Advance
    /\ UNCHANGED <<variant, args, promptsDir, listing, reportsDir, newDir, files, selection,
                   prompt_file, prompt_name, output_file, prompt, reply, sent_model, response, saved,
                   trace>>

StartsWith(s, p) == Len(s) >= Len(p) /\ SubSeq(s, 1, Len(p)) = p
\* model_name == self.model or model_name.startswith(f"{self.model}:")
ModelFound(model, catalog) ==
    \E m \in catalog : m = model \/ StartsWith(m, model \o <<":">>)
\* __init__ without its raise statement
CtorReraisesMut == FALSE
\* whether __init__ re-raises what ollama.list() or ollama.pull() raised
CtorReraises == TRUE

\* OllamaPromptSubmitter.__init__: list the catalog, pull the model when absent
ConstructOllama ==
    /\ pc = "construct" /\ variant = "ollama"
    /\ \E listOk \in BOOLEAN, catalog \in SUBSET CatalogNames, pullOk \in BOOLEAN :
         LET model == IF args.model # <<>> THEN args.model ELSE DEFAULT_MODEL
             pulls == listOk /\ ~ModelFound(model, catalog)
             raised == ~listOk \/ (pulls /\ ~pullOk)
         IN /\ trace' = trace \o <<Event("list", listOk)>>
                              \o (IF pulls THEN <<Event("pull", pullOk)>> ELSE <<>>)
            /\ IF raised /\ CtorReraises
               THEN Exit(1) /\ UNCHANGED submitter
               ELSE /\ submitter' = [made |-> TRUE, api_key |-> FALSE, client |-> TRUE,
                                     model |-> model]
                    /\ Advance
    /\ UNCHANGED <<variant, args, promptsDir, listing, reportsDir, newDir, files, selection,
                   prompt_file, prompt_name, output_file, prompt, reply, sent_model, response, saved>>

\* ------------------------------------------------------------- read_prompt
Content(p) == <<"Hello from ">> \o Stem(p)

\* open(prompt_file).read(); when it raises the cloud scripts die of the exception
\* and the local script's except clause calls sys.exit(1)
ReadPrompt ==
    /\ pc = "read"
    /\ \E ok \in BOOLEAN :
         /\ trace' = Append(trace, Event("read", ok))
         /\ IF ok THEN prompt' = Content(prompt_file) /\ Advance
                  ELSE Exit(1) /\ UNCHANGED prompt
    /\ UNCHANGED <<variant, args, promptsDir, listing, reportsDir, newDir, files, selection,
                   prompt_file, prompt_name, output_file, submitter, reply, sent_model, response, saved>>

\* ------------------------------------------------------------- submit_prompt
SimulationText(v) ==
    IF v = "gemini"
    THEN <<"# Gemini Response (", "Simulation", ")", NL, NL,
           "This is a simulated response because the Gemini API client was not available.">>
    ELSE <<"# xAI Response (", "Simulation", ")", NL, NL,
           "This is a simulated response because the xAI API client was not available.">>

ErrorTitle(v) ==
    CASE v = "gemini" -> "# Gemini API Error"
      [] v = "xai" -> "# xAI API Error"
      [] OTHER -> "# Ollama API Error"
\* str(e), which the local variant prefixes: error_msg = f"Error calling Ollama API: {str(e)}"
ErrorMessage(v, detail) ==
    IF v = "ollama" THEN <<"Error calling Ollama API: ">> \o detail ELSE detail
\* the title, a blank line, and the message between two code-fence lines
ErrorArtifact(v, detail) ==
    <<ErrorTitle(v), NL, NL, FENCE, NL>> \o ErrorMessage(v, detail) \o <<NL, FENCE>>
\* what taking the text out of a reply without text raises: response.text[:200] on
\* None (gemini), completion.choices[0] on an empty list (xai)
ExtractError(v) ==
    IF v = "gemini" THEN <<"NoneType object is not subscriptable">>
    ELSE <<"list index out of range">>
\* the model submit_prompt names in its request
RequestModel(v, arg, self) ==
    CASE v = "gemini" -> arg.model
      [] v = "xai" -> XAI_MODEL
      [] OTHER -> self.model

\* the text extraction moved out of the try block
SubmitPromptMut(v, client, r) ==
    IF v \in Cloud /\ ~client
    THEN [raised |-> FALSE, text |-> SimulationText(v)]
    ELSE CASE r.kind = "text" -> [raised |-> FALSE, text |-> r.text]
           [] r.kind = "raise" -> [raised |-> FALSE, text |-> ErrorArtifact(v, r.detail)]
           [] OTHER ->
                IF v = "ollama"
                THEN [raised |-> FALSE, text |-> <<"No response generated.">>]
                ELSE [raised |-> TRUE, text |-> <<>>]

\* the result of submit_prompt for what the backend did: everything raised inside the
\* try block, the text extraction included, comes back as an error artifact
SubmitPrompt(v, client, r) ==
    IF v \in Cloud /\ ~client
    THEN [raised |-> FALSE, text |-> SimulationText(v)]
    ELSE CASE r.kind = "text" -> [raised |-> FALSE, text |-> r.text]
           [] r.kind = "raise" -> [raised |-> FALSE, text |-> ErrorArtifact(v, r.detail)]
           [] OTHER ->
                IF v = "ollama"
                THEN [raised |-> FALSE, text |-> <<"No response generated.">>]
                ELSE [raised |-> FALSE, text |-> ErrorArtifact(v, ExtractError(v))]

\* main: response = submitter.submit_prompt(prompt)
Submit ==
    /\ pc = "submit"
    /\ \E r \in (IF variant \in Cloud /\ ~submitter.client THEN {NoReply} ELSE Replies) :
         LET res == SubmitPrompt(variant, submitter.client, r) IN
         /\ reply' = r
         /\ IF r = NoReply
            THEN UNCHANGED <<trace, sent_model>>
            ELSE /\ trace' = Append(trace, Event("generate", r.kind # "raise"))
                 /\ sent_model' = RequestModel(variant, args, submitter)
         /\ IF res.raised
            THEN Exit(1) /\ UNCHANGED response
            ELSE response' = res.text /\ Advance
    /\ UNCHANGED <<variant, args, promptsDir, listing, reportsDir, newDir, files, selection,
                   prompt_file, prompt_name, output_file, submitter, prompt, saved>>

\* ------------------------------------------------------------- save_response
\* the metadata f-string of each variant
Metadata(v, self, name, time) ==
    CASE v = "gemini" ->
           <<"---", NL, "prompt: ">> \o name \o <<NL, "submitted_at: ", time, NL, "model: ">>
           \o GEMINI_DEFAULT_MODEL \o <<NL, "---", NL, NL>>
      [] v = "xai" ->
           <<"---", NL, "prompt: ">> \o name \o <<NL, "submitted_at: ", time, NL, "---", NL, NL>>
      [] OTHER ->
           <<"---", NL, "model: ">> \o self.model \o <<NL, "prompt: ">> \o name
           \o <<NL, "submitted_at: ", time, NL, "---", NL, NL>>
\* a write that ends the file with one more newline
FileTextMut(v, self, resp, name, time) == Metadata(v, self, name, time) \o resp \o <<NL>>
\* f.write(metadata + response)
FileText(v, self, resp, name, time) == Metadata(v, self, name, time) \o resp

\* open(output_file, 'w') needs the file's directory to be there
DirExists(d) ==
    \/ d = CWD
    \/ d = REPORTS_DIR /\ reportsDir = "dir"
    \/ d = NEW_DIR /\ newDir

\* main: formatted_time, then save_response, whose except clause swallows the
\* FileNotFoundError of an open() into a directory that is not there
SaveResponse ==
    /\ pc = "save"
    /\ \E time \in Times :
         LET ok == DirExists(output_file.dir)
             text == FileText(variant, submitter, response, prompt_name, time)
         IN /\ saved' = [called |-> TRUE, response |-> response, prompt_name |-> prompt_name,
                         time |-> time, ok |-> ok]
            /\ trace' = Append(trace, Event("write", ok))
            /\ files' = IF ok
                        THEN {f \in files : f.path # output_file}
                             \cup {[path |-> output_file, content |-> text]}
                        ELSE files
    /\ Advance
    /\ UNCHANGED <<variant, args, promptsDir, listing, reportsDir, newDir, selection,
                   prompt_file, prompt_name, output_file, submitter, prompt, reply, response,
                   sent_model>>

\* ------------------------------------------------------------- the run
Next ==
    \/ ListModels
    \/ FindPromptMkdirFails
    \/ FindPromptInteractive
    \/ FindPromptByName
    \/ SetupOutput
    \/ ConstructCloud
    \/ ConstructOllama
    \/ ReadPrompt
    \/ Submit
    \/ SaveResponse

Spec == Init /\ [][Next]_vars

\* ------------------------------------------------------------- properties
FindDone == ~args.list_models /\ (step > 1 \/ exited)

\* C1: find_prompt_file with a non-empty name returns prompts/<name>.txt exactly
\* when that file exists; when it does not, no path is returned and the process
\* has exited with a non-zero status.
C1_ByNameIffExists ==
    (args.prompt # <<>> /\ FindDone) =>
        IF \E i \in 1..Len(listing) : <<listing[i]>> = args.prompt
        THEN prompt_file = [dir |-> "prompts", file |-> args.prompt \o <<".txt">>]
        ELSE prompt_file = NoPath /\ exited /\ exitCode # 0

C1_Witness ==
    /\ args.prompt = <<"notes">> /\ listing = <<"demo", "notes">>
    /\ prompt_file = [dir |-> "prompts", file |-> <<"notes", ".txt">>]
    /\ pc = "setup"

\* C2: in interactive selection over N >= 1 listed files the operator is asked
\* once; an input that is an integer i with 1 <= i <= N returns the i-th listed
\* file, every other input returns no file and exits with a non-zero status.
C2_InteractiveSelection ==
    (args.prompt = <<>> /\ FindDone /\ Len(listing) >= 1) =>
        LET n == Len(listing)
            r == ParseInt(selection.text)
            valid == ~selection.eof /\ r.ok /\ 1 <= r.val /\ r.val <= n
        IN /\ selection.asked
           /\ Count("input") = 1
           /\ valid => /\ prompt_file = [dir |-> "prompts", file |-> <<listing[r.val], ".txt">>]
                       /\ ~(exited /\ step = 1)
           /\ ~valid => prompt_file = NoPath /\ exited /\ exitCode # 0

C2_Witness ==
    /\ args.prompt = <<>> /\ listing = <<"todo", "demo">>
    /\ selection.text = <<" ", "2">>
    /\ prompt_file = [dir |-> "prompts", file |-> <<"demo", ".txt">>]
    /\ pc = "setup"

\* the text holds the whole line `line` somewhere in positions lo..hi
HasLine(c, lo, hi, line) ==
    \E i \in lo..hi :
        /\ c[i - 1] = NL
        /\ i + Len(line) <= hi
        /\ SubSeq(c, i, i + Len(line) - 1) = line
        /\ c[i + Len(line)] = NL
\* c is an opening ---, header lines with the prompt: and submitted_at: lines, the
\* closing ---, a blank line, and then resp and nothing else
WellFormed(c, name, time, resp) ==
    LET n == Len(c) - Len(resp) IN
    /\ n >= 6
    /\ SubSeq(c, n + 1, Len(c)) = resp
    /\ c[1] = "---" /\ c[2] = NL
    /\ c[n - 3] = NL /\ c[n - 2] = "---" /\ c[n - 1] = NL /\ c[n] = NL
    /\ \A i \in 3..(n - 3) : ~(c[i - 1] = NL /\ c[i] = "---" /\ c[i + 1] = NL)
    /\ HasLine(c, 3, n - 3, <<"prompt: ">> \o name)
    /\ HasLine(c, 3, n - 3, <<"submitted_at: ", time>>)

\* C3: whenever save_response writes, the file holds the --- header with the
\* prompt: and submitted_at: lines of the call, the closing ---, a blank line, and
\* then the response text as passed in, with nothing after it.
C3_WrittenFileLayout ==
    (saved.called /\ saved.ok) =>
        \E f \in files :
            /\ f.path = output_file
            /\ WellFormed(f.content, saved.prompt_name, saved.time, saved.response)

C3_Witness ==
    /\ saved.called /\ saved.ok
    /\ saved.response = <<"---", NL, "body">>
    /\ \E f \in files : f.path = output_file /\ Len(f.content) > Len(saved.response)

\* main has got past the statement `name`
StepOf(name) == CHOOSE i \in 1..Len(MainSteps(variant)) : MainSteps(variant)[i] = name
Past(name) == step > StepOf(name)
IsSuffix(t, c) == Len(t) <= Len(c) /\ SubSeq(c, Len(c) - Len(t) + 1, Len(c)) = t

\* C4: in a cloud variant without an API credential, once the prompt file has
\* resolved submit_prompt makes no remote call and returns the fixed string that
\* contains "Simulation", and the run ends with exit status 0 and an output file
\* written that contains that string.
C4_SimulationRunWritesFile ==
    (variant \in Cloud /\ submitter.made /\ ~submitter.api_key /\ Past("submit")) =>
        /\ ~Did("generate")
        /\ \E i \in 1..Len(response) : response[i] = "Simulation"
        /\ response \in {SimulationText(v) : v \in Cloud}
        /\ exited => /\ exitCode = 0
                     /\ \E f \in files : f.path = output_file /\ IsSuffix(response, f.content)

\* the text ends with a code block that holds the detail: a fence line, the
\* detail at the end of the block, a fence
EmbedsInCodeBlock(t, d) ==
    \E i \in 1..Len(t) :
        /\ t[i] = FENCE /\ t[i + 1] = NL
        /\ LET j == Len(t) - Len(d) - 1 IN
           /\ j >= i + 2
           /\ SubSeq(t, j, j + Len(d) - 1) = d
           /\ t[Len(t) - 1] = NL /\ t[Len(t)] = FENCE
BackendRaised ==
    reply.kind = "raise" \/ (reply.kind = "malformed" /\ variant \in Cloud)

\* C5: an exception raised during the backend call inside submit_prompt, the text
\* extraction included, does not leave submit_prompt: the response is an error
\* artifact with the error detail in a code block, save_response gets that
\* artifact, and the process ends with exit status 0.
C5_SubmitErrorBecomesArtifact ==
    BackendRaised =>
        /\ ~(exited /\ step = StepOf("submit"))
        /\ EmbedsInCodeBlock(response,
                             IF reply.kind = "raise" THEN reply.detail
                             ELSE ExtractError(variant))
        /\ saved.called => saved.response = response
        /\ exited => exitCode = 0 /\ saved.called

C5_Witness ==
    /\ variant = "xai" /\ reply.kind = "malformed"
    /\ exited /\ exitCode = 0
    /\ saved.called /\ saved.response = response /\ response[1] = "# xAI API Error"

\* C6: in the local variant, when the catalog listing or the model pull fails in
\* the constructor, the constructor raises: the prompt file is never read,
\* generate is never called, no output file is written, and the process exits
\* with a non-zero status.
C6_CtorFailureStopsRun ==
    (variant = "ollama" /\ ~args.list_models /\ (Failed("list") \/ Failed("pull"))) =>
        /\ ~submitter.made
        /\ ~Did("read") /\ prompt = <<>>
        /\ ~Did("generate")
        /\ ~Did("write") /\ files = {}
        /\ exited /\ exitCode # 0

C6_Witness ==
    /\ variant = "ollama" /\ ~args.list_models
    /\ prompt_file # NoPath /\ Failed("list")
    /\ exited /\ exitCode = 1 /\ files = {}

\* C7: in the local variant every run in which the daemon cannot be reached ends
\* with a non-zero exit status, on the submission path and on the --list-models
\* path alike.
C7_UnreachableDaemonExitsNonZero ==
    (variant = "ollama" /\ exited /\ Failed("list")) => exitCode # 0

\* C8: with an explicit --output path whose parent directory does not exist, the
\* tool creates the parent directory and the output file exists at that path
\* after the run.
C8_OutputParentCreated ==
    (args.output # NoPath /\ args.output.dir = NEW_DIR /\ saved.called /\ exited) =>
        /\ newDir
        /\ \E f \in files : f.path = args.output

\* C9: a persistence failure is never fatal: when creating the reports directory
\* fails or opening or writing the output file fails, the process still ends with
\* exit status 0.
C9_PersistenceFailureNotFatal ==
    (exited /\ (Failed("makedirs") \/ Failed("write"))) => exitCode = 0

BackendOps == {"list", "pull", "generate"}
Before(opsA, opsB) ==
    \A i, j \in 1..Len(trace) : (trace[i].op \in opsB /\ trace[j].op \in opsA) => j < i
CountIn(ops) == Cardinality({i \in 1..Len(trace) : trace[i].op \in ops})

\* C10 as stated: at most one prompt-file read, at most one backend contact of
\* any kind (listing, pull, generation) and at most one output-file write, in
\* that order, and no backend contact before the prompt is resolved.
C10_OneReadOneCallOneWrite ==
    /\ Count("read") <= 1 /\ CountIn(BackendOps) <= 1 /\ Count("write") <= 1
    /\ Before({"read"}, BackendOps) /\ Before(BackendOps, {"write"})
    /\ (~args.list_models /\ CountIn(BackendOps) > 0) => prompt_file # NoPath

\* C10 amended: at most one prompt-file read, one generation request and one
\* output-file write, in that order and after the prompt is resolved; a cloud
\* variant contacts its backend for nothing else, the local variant also lists
\* the catalog once and pulls at most once, before the read.
C10_Amended ==
    /\ Count("read") <= 1 /\ Count("generate") <= 1 /\ Count("write") <= 1
    /\ Before({"read"}, {"generate"}) /\ Before({"generate"}, {"write"})
    /\ Before({"read"}, {"write"})
    /\ Count("list") <= 1 /\ Count("pull") <= 1
    /\ variant \in Cloud => CountIn({"list", "pull"}) = 0
    /\ Before({"list"}, {"pull"}) /\ Before({"list", "pull"}, {"read", "generate", "write"})
    /\ (~args.list_models /\ CountIn(BackendOps \cup {"read", "write"}) > 0)
          => prompt_file # NoPath
    /\ args.list_models => CountIn({"pull", "generate", "read", "write"}) = 0

C10_Witness ==
    /\ variant = "ollama" /\ exited /\ exitCode = 0
    /\ Count("list") = 1 /\ Count("pull") = 1 /\ Count("read") = 1
    /\ Count("generate") = 1 /\ Count("write") = 1

\* C11: in the variants whose header has a model: line (gemini and ollama), the
\* model identifier on that line of the written file is the model identifier the
\* generation request of the same run named, whatever --model was.
C11_HeaderModelIsRequestModel ==
    (variant \in {"gemini", "ollama"} /\ Did("generate") /\ saved.called /\ saved.ok) =>
        \E f \in files :
            /\ f.path = output_file
            /\ HasLine(f.content, 3, Len(f.content) - Len(saved.response) - 3,
                       <<"model: ">> \o sent_model)

====
